---- MODULE Spec2Model ----
(***************************************************************************)
(* The two-pass SimpleRisc assembler of                                    *)
(* Computer_Organization_and_Architecture/                                 *)
(* simple_risc_assembler_with_modifiers.py: assemble(), its Pass 1 (label  *)
(* map), its Pass 2 (instruction encoding) and to_binary().                *)
(*                                                                         *)
(* A Python str is modelled as the sequence of its characters, so that     *)
(* isdigit(), int(), the memory-operand regular expression, bin(), zfill() *)
(* and string concatenation are computed as the code computes them.        *)
(* Python's None is the value None below, which is no character sequence.  *)
(***************************************************************************)
EXTENDS Integers, Sequences, FiniteSets, TLC

None == <<"None">>

\* Python truthiness of an Optional[str]: None and '' are falsy.
Truthy(x) == x # None /\ x # <<>>

Digits == {"0","1","2","3","4","5","6","7","8","9"}

DigitVal(c) ==
    CASE c = "0" -> 0 [] c = "1" -> 1 [] c = "2" -> 2 [] c = "3" -> 3
      [] c = "4" -> 4 [] c = "5" -> 5 [] c = "6" -> 6 [] c = "7" -> 7
      [] c = "8" -> 8 [] c = "9" -> 9

\* str.isdigit(): every character a digit and at least one character.
isdigit(s) == Len(s) > 0 /\ \A i \in 1..Len(s) : s[i] \in Digits

RECURSIVE DecVal(_)
DecVal(s) == IF s = <<>> THEN 0
             ELSE 10 * DecVal(SubSeq(s, 1, Len(s) - 1)) + DigitVal(s[Len(s)])

\* int(s) for s of the shape -?\d* (the only shapes the code passes to int()):
\* ValueError when no digit follows the optional sign.
IntOk(s) == IF Len(s) > 0 /\ s[1] = "-" THEN isdigit(Tail(s)) ELSE isdigit(s)
int(s) == IF Len(s) > 0 /\ s[1] = "-" THEN 0 - DecVal(Tail(s)) ELSE DecVal(s)

\* The test of lines 152, 166 and 178:
\* op.isdigit() or (op.startswith('-') and op[1:].isdigit())
IsNumeric(op) ==
    isdigit(op) \/ (Len(op) > 0 /\ op[1] = "-" /\ isdigit(Tail(op)))

Zeros(n) == [i \in 1..n |-> "0"]

\* bin(v)[2:]: the binary digits of v for v >= 0; for v < 0 bin(v) is
\* '-0b...' and the slice keeps 'b' and the digits of -v.
RECURSIVE NatBits(_)
NatBits(n) == IF n < 2 THEN <<IF n = 1 THEN "1" ELSE "0">>
              ELSE NatBits(n \div 2) \o <<IF n % 2 = 1 THEN "1" ELSE "0">>

bin(v) == IF v >= 0 THEN <<"0","b">> \o NatBits(v)
          ELSE <<"-","0","b">> \o NatBits(0 - v)

\* str.zfill(width): zeros on the left up to width, after a leading sign.
zfill(s, width) ==
    IF Len(s) >= width THEN s
    ELSE IF Len(s) > 0 /\ s[1] \in {"+","-"}
         THEN <<s[1]>> \o Zeros(width - Len(s)) \o Tail(s)
         ELSE Zeros(width - Len(s)) \o s

to_binary(value, bits, signed) ==
    LET v == IF signed /\ value < 0 THEN (2 ^ bits) + value ELSE value
        b == bin(v)
    IN  zfill(SubSeq(b, 3, Len(b)), bits)

OPCODES ==
       (<<"a","d","d">> :> <<"0","0","0","0","0">>)
    @@ (<<"s","u","b">> :> <<"0","0","0","0","1">>)
    @@ (<<"m","u","l">> :> <<"0","0","0","1","0">>)
    @@ (<<"d","i","v">> :> <<"0","0","0","1","1">>)
    @@ (<<"m","o","d">> :> <<"0","0","1","0","0">>)
    @@ (<<"c","m","p">> :> <<"0","0","1","0","1">>)
    @@ (<<"a","n","d">> :> <<"0","0","1","1","0">>)
    @@ (<<"o","r">> :> <<"0","0","1","1","1">>)
    @@ (<<"n","o","t">> :> <<"0","1","0","0","0">>)
    @@ (<<"m","o","v">> :> <<"0","1","0","0","1">>)
    @@ (<<"a","d","d","u">> :> <<"0","0","0","0","0">>)
    @@ (<<"s","u","b","u">> :> <<"0","0","0","0","1">>)
    @@ (<<"m","u","l","u">> :> <<"0","0","0","1","0">>)
    @@ (<<"d","i","v","u">> :> <<"0","0","0","1","1">>)
    @@ (<<"m","o","d","u">> :> <<"0","0","1","0","0">>)
    @@ (<<"c","m","p","u">> :> <<"0","0","1","0","1">>)
    @@ (<<"a","n","d","u">> :> <<"0","0","1","1","0">>)
    @@ (<<"o","r","u">> :> <<"0","0","1","1","1">>)
    @@ (<<"n","o","t","u">> :> <<"0","1","0","0","0">>)
    @@ (<<"m","o","v","u">> :> <<"0","1","0","0","1">>)
    @@ (<<"a","d","d","h">> :> <<"0","0","0","0","0">>)
    @@ (<<"s","u","b","h">> :> <<"0","0","0","0","1">>)
    @@ (<<"m","u","l","h">> :> <<"0","0","0","1","0">>)
    @@ (<<"d","i","v","h">> :> <<"0","0","0","1","1">>)
    @@ (<<"m","o","d","h">> :> <<"0","0","1","0","0">>)
    @@ (<<"c","m","p","h">> :> <<"0","0","1","0","1">>)
    @@ (<<"a","n","d","h">> :> <<"0","0","1","1","0">>)
    @@ (<<"o","r","h">> :> <<"0","0","1","1","1">>)
    @@ (<<"n","o","t","h">> :> <<"0","1","0","0","0">>)
    @@ (<<"m","o","v","h">> :> <<"0","1","0","0","1">>)
    @@ (<<"l","s","l">> :> <<"0","1","0","1","0">>)
    @@ (<<"l","s","r">> :> <<"0","1","0","1","1">>)
    @@ (<<"a","s","r">> :> <<"0","1","1","0","0">>)
    @@ (<<"n","o","p">> :> <<"0","1","1","0","1">>)
    @@ (<<"l","d">> :> <<"0","1","1","1","0">>)
    @@ (<<"s","t">> :> <<"0","1","1","1","1">>)
    @@ (<<"b","e","q">> :> <<"1","0","0","0","0">>)
    @@ (<<"b","g","t">> :> <<"1","0","0","0","1">>)
    @@ (<<"b">> :> <<"1","0","0","1","0">>)
    @@ (<<"c","a","l","l">> :> <<"1","0","0","1","1">>)
    @@ (<<"r","e","t">> :> <<"1","0","1","0","0">>)

MODIFIER_OPCODES ==
    {<<"a","d","d","u">>,
     <<"s","u","b","u">>,
     <<"m","u","l","u">>,
     <<"d","i","v","u">>,
     <<"m","o","d","u">>,
     <<"c","m","p","u">>,
     <<"a","n","d","u">>,
     <<"o","r","u">>,
     <<"n","o","t","u">>,
     <<"m","o","v","u">>,
     <<"a","d","d","h">>,
     <<"s","u","b","h">>,
     <<"m","u","l","h">>,
     <<"d","i","v","h">>,
     <<"m","o","d","h">>,
     <<"c","m","p","h">>,
     <<"a","n","d","h">>,
     <<"o","r","h">>,
     <<"n","o","t","h">>,
     <<"m","o","v","h">>}

REGISTERS ==
       (<<"r","0">> :> <<"0","0","0","0">>)
    @@ (<<"r","1">> :> <<"0","0","0","1">>)
    @@ (<<"r","2">> :> <<"0","0","1","0">>)
    @@ (<<"r","3">> :> <<"0","0","1","1">>)
    @@ (<<"r","4">> :> <<"0","1","0","0">>)
    @@ (<<"r","5">> :> <<"0","1","0","1">>)
    @@ (<<"r","6">> :> <<"0","1","1","0">>)
    @@ (<<"r","7">> :> <<"0","1","1","1">>)
    @@ (<<"r","8">> :> <<"1","0","0","0">>)
    @@ (<<"r","9">> :> <<"1","0","0","1">>)
    @@ (<<"r","1","0">> :> <<"1","0","1","0">>)
    @@ (<<"r","1","1">> :> <<"1","0","1","1">>)
    @@ (<<"r","1","2">> :> <<"1","1","0","0">>)
    @@ (<<"r","1","3">> :> <<"1","1","0","1">>)
    @@ (<<"r","1","4">> :> <<"1","1","1","0">>)
    @@ (<<"s","p">> :> <<"1","1","1","0">>)
    @@ (<<"r","1","5">> :> <<"1","1","1","1">>)
    @@ (<<"r","a">> :> <<"1","1","1","1">>)

BRANCH_MNEMONICS ==
    {<<"b","e","q">>, <<"b","g","t">>, <<"b">>, <<"c","a","l","l">>, <<"r","e","t">>}

IMM_REG_MNEMONICS ==
    {<<"c","m","p">>, <<"s","u","b">>, <<"a","d","d">>, <<"m","u","l">>,
     <<"m","o","v">>, <<"l","d">>, <<"s","t">>, <<"a","n","d">>, <<"o","r">>,
     <<"n","o","t">>}

CMP_MNEMONICS == {<<"c","m","p">>, <<"c","m","p","u">>, <<"c","m","p","h">>}

ARITH_MNEMONICS ==
    {<<"s","u","b">>, <<"a","d","d">>, <<"m","u","l">>, <<"a","n","d">>, <<"o","r">>,
     <<"s","u","b","u">>, <<"a","d","d","u">>, <<"m","u","l","u">>,
     <<"a","n","d","u">>, <<"o","r","u">>,
     <<"s","u","b","h">>, <<"a","d","d","h">>, <<"m","u","l","h">>,
     <<"a","n","d","h">>, <<"o","r","h">>}

MOV_MNEMONICS ==
    {<<"m","o","v">>, <<"m","o","v","u">>, <<"m","o","v","h">>,
     <<"n","o","t">>, <<"n","o","t","u">>, <<"n","o","t","h">>}

LDST_MNEMONICS == {<<"l","d">>, <<"s","t">>}

\* dict.get(key) and dict.get(key, default)
OPCODES_get(m) == IF m \in DOMAIN OPCODES THEN OPCODES[m] ELSE None
REGISTERS_get(r) == IF r \in DOMAIN REGISTERS THEN REGISTERS[r] ELSE Zeros(4)

\* re.match(r'(-?\d*)\[(.*?)\]', s): an optional '-', the longest run of
\* digits, a '[', then the shortest text up to a ']'.  matched is FALSE for
\* Python's None (no match).
DigitsEnd(s, from) ==
    IF \E j \in from..Len(s) : s[j] \notin Digits
    THEN (CHOOSE j \in from..Len(s) :
             s[j] \notin Digits /\ \A k \in from..(j - 1) : s[k] \in Digits)
    ELSE Len(s) + 1

re_match_mem(s) ==
    LET start == IF Len(s) > 0 /\ s[1] = "-" THEN 2 ELSE 1
        p == DigitsEnd(s, start)
    IN  IF p <= Len(s) /\ s[p] = "[" /\ \E q \in (p + 1)..Len(s) : s[q] = "]"
        THEN LET q == CHOOSE q \in (p + 1)..Len(s) :
                          s[q] = "]" /\ \A k \in (p + 1)..(q - 1) : s[k] # "]"
             IN  [matched |-> TRUE, group1 |-> SubSeq(s, 1, p - 1),
                  group2 |-> SubSeq(s, p + 1, q - 1)]
        ELSE [matched |-> FALSE, group1 |-> <<>>, group2 |-> <<>>]

(***************************************************************************)
(* Pass 2, one instruction-bearing entry (lines 117-236).  The result      *)
(* tells how the loop body ends: "continue" (a printed error, the address  *)
(* advanced by `advance`, no word), "raise" (an uncaught IndexError or     *)
(* ValueError leaves assemble()), or "assembled" (line 230 is reached with *)
(* assembled_instruction = word).                                          *)
(***************************************************************************)
\* Skip without the current_address += 1: the fault C3 rules out.
SkipNoAdvance(kind) ==
    [outcome |-> "continue", diag |-> kind, word |-> None, advance |-> 0]

\* print(error); current_address += 1; continue  (lines 120-122, 131-133,
\* 202-204, 226-228)
Skip(kind) ==
    [outcome |-> "continue", diag |-> kind, word |-> None, advance |-> 1]

Raise(kind) ==
    [outcome |-> "raise", diag |-> kind, word |-> None, advance |-> 0]

Assembled(w) ==
    [outcome |-> "assembled", diag |-> "", word |-> w, advance |-> 1]

\* pc_next taken as the branch's own address: the fault C2 rules out.
pc_next_is_current(current_address) == current_address

\* pc_next = current_address + 1  (line 137)
pc_next(current_address) == current_address + 1

\* Lines 125-140.
BranchFormat(entry, opcode, lm, addr) ==
    IF entry.mnemonic = <<"r","e","t">>
    THEN Assembled(opcode \o to_binary(0, 27, FALSE))
    ELSE IF Len(entry.operands) = 0
    THEN Raise("IndexError")
    ELSE LET target_label == entry.operands[1]
         IN  IF target_label \notin DOMAIN lm
             THEN Skip("UndefinedLabel")
             ELSE LET target_address == lm[target_label]
                      offset == target_address - pc_next(addr)
                  IN  Assembled(opcode \o to_binary(offset, 27, TRUE))

\* The locals of lines 144-147 and what the per-class blocks make of them.
\* immediate_val = None is imm_none; assembled is assembled_instruction.
Fields(I_bit, rd_bin, rs1_bin, immediate_val, imm_none, assembled) ==
    [error |-> "", I_bit |-> I_bit, rd_bin |-> rd_bin, rs1_bin |-> rs1_bin,
     immediate_val |-> immediate_val, imm_none |-> imm_none,
     assembled |-> assembled]

FieldsError(outcome, kind) ==
    [error |-> outcome, kind |-> kind, I_bit |-> "1", rd_bin |-> Zeros(4),
     rs1_bin |-> Zeros(4), immediate_val |-> 0, imm_none |-> FALSE,
     assembled |-> None]

\* The shared shape of lines 151-160, 165-173 and 177-185: operand k (1-based)
\* is an immediate or a register; absent, the defaults of lines 144-147 stay.
RegOrImm(opcode, rd_bin, rs1_bin, operands, k) ==
    IF Len(operands) > k - 1
    THEN IF IsNumeric(operands[k])
         THEN Fields("1", rd_bin, rs1_bin, int(operands[k]), FALSE, None)
         ELSE Fields("0", rd_bin, rs1_bin, 0, TRUE,
                     opcode \o <<"0">> \o rd_bin \o rs1_bin
                            \o REGISTERS_get(operands[k]) \o Zeros(14))
    ELSE Fields("1", rd_bin, rs1_bin, 0, FALSE, None)

\* Lines 149-204.
DecodeOperands(mnemonic, opcode, operands) ==
    IF mnemonic \in CMP_MNEMONICS
    THEN IF Len(operands) < 1 THEN FieldsError("raise", "IndexError")
         ELSE RegOrImm(opcode, Zeros(4), REGISTERS_get(operands[1]), operands, 2)
    ELSE IF mnemonic \in ARITH_MNEMONICS
    THEN IF Len(operands) < 2 THEN FieldsError("raise", "IndexError")
         ELSE RegOrImm(opcode, REGISTERS_get(operands[1]),
                       REGISTERS_get(operands[2]), operands, 3)
    ELSE IF mnemonic \in MOV_MNEMONICS
    THEN IF Len(operands) < 1 THEN FieldsError("raise", "IndexError")
         ELSE RegOrImm(opcode, REGISTERS_get(operands[1]), Zeros(4), operands, 2)
    ELSE IF mnemonic \in LDST_MNEMONICS
    THEN IF Len(operands) < 2 THEN FieldsError("raise", "IndexError")
         ELSE LET rd_bin == REGISTERS_get(operands[1])
                  mem_operand == operands[2]
                  offset_match == re_match_mem(mem_operand)
              IN  IF offset_match.matched
                  THEN LET offset_str == offset_match.group1
                       IN  IF offset_str # <<>> /\ ~IntOk(offset_str)
                           THEN FieldsError("raise", "ValueError")
                           ELSE Fields("1", rd_bin,
                                       REGISTERS_get(offset_match.group2),
                                       IF offset_str # <<>> THEN int(offset_str) ELSE 0,
                                       FALSE, None)
                  ELSE FieldsError("continue", "InvalidMemoryOperand")
    ELSE Fields("1", Zeros(4), Zeros(4), 0, FALSE, None)

\* Lines 209-215: the 2 modifier bits in front of the 16-bit constant.
imm_field(mnemonic, imm_bin) ==
    IF mnemonic \in MODIFIER_OPCODES
    THEN IF mnemonic[Len(mnemonic)] = "u"
         THEN <<"0","1">> \o imm_bin
         ELSE <<"1","0">> \o imm_bin
    ELSE <<"0","0">> \o imm_bin

\* Lines 143-217.
ImmRegFormat(entry, opcode) ==
    LET f == DecodeOperands(entry.mnemonic, opcode, entry.operands)
    IN  IF f.error = "raise" THEN Raise(f.kind)
        ELSE IF f.error = "continue" THEN Skip(f.kind)
        ELSE IF f.I_bit = "1" /\ ~f.imm_none /\ f.assembled = None
        THEN Assembled(opcode \o <<f.I_bit>> \o f.rd_bin \o f.rs1_bin
                       \o imm_field(entry.mnemonic,
                                    to_binary(f.immediate_val, 16, TRUE)))
        ELSE Assembled(f.assembled)

\* Lines 219-228.
Fallback(entry) ==
    IF entry.mnemonic = <<"n","o","p">>
    THEN Assembled(OPCODES[<<"n","o","p">>] \o Zeros(27))
    ELSE IF entry.mnemonic = <<"r","e","t">>
    THEN Assembled(OPCODES[<<"r","e","t">>] \o Zeros(27))
    ELSE Skip("NotImplemented")

\* Lines 118-228 for an entry with a mnemonic.
EncodeInstruction(entry, lm, addr) ==
    LET opcode == OPCODES_get(entry.mnemonic)
    IN  IF ~Truthy(opcode) THEN Skip("UnknownMnemonic")
        ELSE IF entry.mnemonic \in BRANCH_MNEMONICS
        THEN BranchFormat(entry, opcode, lm, addr)
        ELSE IF entry.mnemonic \in IMM_REG_MNEMONICS
                \/ entry.mnemonic \in MODIFIER_OPCODES
        THEN ImmRegFormat(entry, opcode)
        ELSE Fallback(entry)

\* The width test without the placeholder: the fault C5 (amended) rules out.
WidthCheckKeepsWord(assembled) ==
    [word |-> assembled, mismatch |-> Len(assembled) # 32]

\* Lines 232-234: a word that is not 32 characters long is reported and
\* replaced by the placeholder '0' * 32.
WidthCheck(assembled) ==
    IF Len(assembled) # 32
    THEN [word |-> Zeros(32), mismatch |-> TRUE]
    ELSE [word |-> assembled, mismatch |-> FALSE]

(***************************************************************************)
(* The inputs: processed_lines as lines 87-92 build it.  Every entry has a *)
(* label or a mnemonic; a mnemonic is a non-empty run of lowercase letters *)
(* and comes with its list of non-empty operands; a label-only entry has   *)
(* mnemonic = operands = None.                                             *)
(***************************************************************************)
MaxLines == 3

Line(label, mnemonic, operands) ==
    [label |-> label, mnemonic |-> mnemonic, operands |-> operands]

LabelA == <<".","a">>
LabelB == <<".","b">>
R1 == <<"r","1">>
SP == <<"s","p">>

\* Lines of programs about labels, branches and failing lines.
LabelLines ==
    { Line(LabelA, None, None),
      Line(LabelB, None, None),
      Line(<<>>, <<"n","o","p">>, <<>>),
      Line(None, <<"n","o","p">>, <<>>),
      Line(LabelA, <<"r","e","t">>, <<>>),
      Line(LabelB, <<"m","o","v">>, <<R1, <<"1">>>>),
      Line(None, <<"b">>, <<LabelA>>),
      Line(LabelA, <<"b","e","q">>, <<LabelB>>),
      Line(LabelB, <<"c","a","l","l">>, <<LabelA>>),
      Line(None, <<"b","g","t">>, <<LabelB>>),
      Line(None, <<"f","o","o">>, <<R1>>),
      Line(LabelB, <<"x">>, <<>>),
      Line(None, <<"l","d">>, <<R1, SP>>),
      Line(None, <<"d","i","v">>, <<R1, R1, SP>>) }

Immediates ==
    { <<"1">>, <<"2">>, <<"-","1">>,
      <<"3","2","7","6","7">>, <<"-","3","2","7","6","8">>,
      <<"3","2","7","6","8">>, <<"6","5","5","3","5">>,
      <<"6","5","5","3","6">>, <<"-","3","2","7","6","9">>,
      <<"-","6","5","5","3","7">>, <<"-","9","8","3","0","4">> }

MemOperands ==
    { <<"[","s","p","]">>, <<"1","[","s","p","]">>,
      <<"-","4","[","r","1","]">>, <<"-","[","s","p","]">>,
      <<"[","s","p">> }

Regs == {R1, SP}

OperandLists ==
    {<<>>}
    \cup {<<r>> : r \in Regs}
    \cup {<<LabelA>>}
    \cup {<<r, x>> : r \in Regs, x \in Regs \cup Immediates \cup MemOperands}
    \cup {<<r, s, x>> : r \in Regs, s \in Regs, x \in Regs \cup Immediates}

\* Every mnemonic of the opcode table and one unknown mnemonic, with every
\* operand list.
EncodingLines ==
    { Line(None, m, ops) : m \in DOMAIN OPCODES \cup {<<"f","o","o">>},
                           ops \in OperandLists }

RECURSIVE SeqsUpTo(_, _)
SeqsUpTo(S, n) ==
    IF n = 0 THEN {<<>>}
    ELSE LET shorter == SeqsUpTo(S, n - 1)
         IN  shorter \cup {Append(s, x) : s \in shorter, x \in S}

Programs ==
    (SeqsUpTo(LabelLines, MaxLines) \ {<<>>}) \cup {<<e>> : e \in EncodingLines}

\* enumerate(lines): line_num is the 0-based index of the source line.
Numbered(prog) ==
    [i \in 1..Len(prog) |->
        [line_num |-> i - 1, label |-> prog[i].label,
         mnemonic |-> prog[i].mnemonic, operands |-> prog[i].operands]]

VARIABLES
    processed_lines,        \* the parsed entries (line 88-92)
    pc,                     \* "pass1", "pass2", "done" (returned), "raised"
    idx,                    \* position of the running for loop, 1-based
    label_map,              \* line 95
    current_address,        \* lines 96, 110
    machine_code,           \* line 109: <<[line_num, word]>>
    diagnostics,            \* the errors and warnings printed, in order
    assembled_instruction   \* the local at line 230 of the last iteration

vars == <<processed_lines, pc, idx, label_map, current_address, machine_code,
          diagnostics, assembled_instruction>>

Init ==
    /\ processed_lines \in {Numbered(p) : p \in Programs}
    /\ pc = "pass1"
    /\ idx = 1
    /\ label_map = <<>>
    /\ current_address = 0
    /\ machine_code = <<>>
    /\ diagnostics = <<>>
    /\ assembled_instruction = None

\* label_map[entry['label']] = current_address  (line 99)
Bind(lm, label, addr) ==
    [l \in DOMAIN lm \cup {label} |-> IF l = label THEN addr ELSE lm[l]]

\* Advance on label-only entries too: the fault C1 rules out.
AdvanceAlways(entry, addr) == addr + 1

\* if entry['mnemonic']: current_address += 1  (lines 100-101)
Advance(entry, addr) == IF Truthy(entry.mnemonic) THEN addr + 1 ELSE addr

\* One iteration of the Pass 1 loop (lines 97-101).
Pass1Step ==
    /\ pc = "pass1"
    /\ idx <= Len(processed_lines)
    /\ LET entry == processed_lines[idx]
       IN  /\ label_map' = IF Truthy(entry.label)
                           THEN Bind(label_map, entry.label, current_address)
                           ELSE label_map
           /\ current_address' = Advance(entry, current_address)
    /\ idx' = idx + 1
    /\ UNCHANGED <<processed_lines, pc, machine_code, diagnostics,
                   assembled_instruction>>

\* The Pass 1 loop ends; lines 103-110 start Pass 2.
StartPass2 ==
    /\ pc = "pass1"
    /\ idx > Len(processed_lines)
    /\ pc' = "pass2"
    /\ idx' = 1
    /\ machine_code' = <<>>
    /\ current_address' = 0
    /\ UNCHANGED <<processed_lines, label_map, diagnostics, assembled_instruction>>

\* One iteration of the Pass 2 loop (lines 111-238).
Pass2Step ==
    /\ pc = "pass2"
    /\ idx <= Len(processed_lines)
    /\ LET entry == processed_lines[idx]
           r == EncodeInstruction(entry, label_map, current_address)
       IN  IF ~Truthy(entry.mnemonic)
           THEN /\ machine_code' = Append(machine_code,
                        [line_num |-> entry.line_num, word |-> None])
                /\ assembled_instruction' = None
                /\ idx' = idx + 1
                /\ UNCHANGED <<pc, current_address, diagnostics>>
           ELSE IF r.outcome = "raise"
           THEN /\ pc' = "raised"
                /\ diagnostics' = Append(diagnostics,
                        [line_num |-> entry.line_num, kind |-> r.diag])
                /\ assembled_instruction' = None
                /\ UNCHANGED <<idx, current_address, machine_code>>
           ELSE IF r.outcome = "continue"
           THEN /\ diagnostics' = Append(diagnostics,
                        [line_num |-> entry.line_num, kind |-> r.diag])
                /\ current_address' = current_address + r.advance
                /\ assembled_instruction' = None
                /\ idx' = idx + 1
                /\ UNCHANGED <<pc, machine_code>>
           ELSE /\ assembled_instruction' = r.word
                /\ IF Truthy(r.word)
                   THEN LET c == WidthCheck(r.word)
                        IN  /\ machine_code' = Append(machine_code,
                                    [line_num |-> entry.line_num, word |-> c.word])
                            /\ diagnostics' =
                                    IF c.mismatch
                                    THEN Append(diagnostics,
                                            [line_num |-> entry.line_num,
                                             kind |-> "LengthMismatch"])
                                    ELSE diagnostics
                   ELSE UNCHANGED <<machine_code, diagnostics>>
                /\ current_address' = current_address + 1
                /\ idx' = idx + 1
                /\ UNCHANGED pc
    /\ UNCHANGED <<processed_lines, label_map>>

\* return machine_code  (line 241)
Return ==
    /\ pc = "pass2"
    /\ idx > Len(processed_lines)
    /\ pc' = "done"
    /\ UNCHANGED <<processed_lines, idx, label_map, current_address,
                   machine_code, diagnostics, assembled_instruction>>

Next == Pass1Step \/ StartPass2 \/ Pass2Step \/ Return

Spec == Init /\ [][Next]_vars

(***************************************************************************)
(* Vocabulary of the properties.                                           *)
(***************************************************************************)
NLines == Len(processed_lines)

IsInstr(i) == Truthy(processed_lines[i].mnemonic)

\* The number of instruction-bearing lines strictly before entry i.
InstrBefore(i) == Cardinality({j \in 1..(i - 1) : IsInstr(j)})

\* The entries whose Pass 1 (Pass 2) iteration has run.
Pass1Seen == IF pc = "pass1" THEN 1..(idx - 1) ELSE 1..NLines
Pass2Seen == IF pc = "pass1" THEN {} ELSE 1..(idx - 1)

Defs(l) == {i \in 1..NLines : processed_lines[i].label = l}
FirstDef(l) == CHOOSE d \in Defs(l) : \A e \in Defs(l) : d <= e
LastDefIn(l, S) == CHOOSE d \in Defs(l) \cap S : \A e \in Defs(l) \cap S : e <= d

HasInstrAtOrAfter(d) == \E j \in d..NLines : IsInstr(j)
FirstInstrAtOrAfter(d) ==
    CHOOSE j \in d..NLines : IsInstr(j) /\ \A k \in d..(j - 1) : ~IsInstr(k)

\* The words Pass 2 appended for entry i.
WordsOf(i) ==
    {machine_code[k].word : k \in {k \in DOMAIN machine_code :
        machine_code[k].line_num = processed_lines[i].line_num}}
DiagsOf(i) ==
    {diagnostics[k].kind : k \in {k \in DOMAIN diagnostics :
        diagnostics[k].line_num = processed_lines[i].line_num}}

IsBinary(w) == \A k \in 1..Len(w) : w[k] \in {"0", "1"}

RECURSIVE BitsVal(_)
BitsVal(w) == IF w = <<>> THEN 0
              ELSE 2 * BitsVal(SubSeq(w, 1, Len(w) - 1))
                     + (IF w[Len(w)] = "1" THEN 1 ELSE 0)

\* The integer a two's-complement field denotes.
SignExtend(w) == IF w[1] = "1" THEN BitsVal(w) - 2 ^ Len(w) ELSE BitsVal(w)

JUMP_MNEMONICS == BRANCH_MNEMONICS \ {<<"r","e","t">>}

IsResolvedBranch(i) ==
    /\ processed_lines[i].mnemonic \in JUMP_MNEMONICS
    /\ Len(processed_lines[i].operands) >= 1
    /\ processed_lines[i].operands[1] \in DOMAIN label_map

(***************************************************************************)
(* C1.  After Pass 1 the address bound to each label is the number of      *)
(* instruction-bearing lines strictly before the first instruction-bearing *)
(* line at or after the label's (binding) definition, and during Pass 1    *)
(* the address counter is the number of instruction-bearing lines seen:    *)
(* label-only lines never advance it.                                      *)
(***************************************************************************)
C1_LabelAddresses ==
    /\ pc = "pass1" => current_address = InstrBefore(idx)
    /\ DOMAIN label_map =
          {processed_lines[i].label :
              i \in {i \in Pass1Seen : Truthy(processed_lines[i].label)}}
    /\ \A l \in DOMAIN label_map :
          LET d == LastDefIn(l, Pass1Seen)
          IN  HasInstrAtOrAfter(d) =>
                 label_map[l] = InstrBefore(FirstInstrAtOrAfter(d))

\* Pass 1 is over, and a label defined on a label-only line that follows an
\* instruction is bound to the address of the instruction after it.
C1_Witness ==
    /\ pc = "pass2"
    /\ \E d \in 1..NLines :
          /\ ~IsInstr(d)
          /\ processed_lines[d].label \in DOMAIN label_map
          /\ LastDefIn(processed_lines[d].label, Pass1Seen) = d
          /\ HasInstrAtOrAfter(d)
          /\ label_map[processed_lines[d].label] >= 1

(***************************************************************************)
(* C2.  Every branch or call whose target label is defined, earlier or     *)
(* later in the program, gets the word opcode(5) ++ field(27) where the    *)
(* field, read as a 27-bit two's-complement number, is                     *)
(* targetAddress - (branchAddress + 1), branchAddress being the number of  *)
(* instructions before the branch (its Pass 1 address); adding             *)
(* branchAddress + 1 to the decoded field gives targetAddress back.        *)
(***************************************************************************)
C2_BranchOffsets ==
    \A i \in Pass2Seen :
        IsResolvedBranch(i) =>
            LET e == processed_lines[i]
                targetAddress == label_map[e.operands[1]]
                branchAddress == InstrBefore(i)
            IN  /\ WordsOf(i) # {}
                /\ \A w \in WordsOf(i) :
                      /\ Len(w) = 32
                      /\ IsBinary(w)
                      /\ SubSeq(w, 1, 5) = OPCODES[e.mnemonic]
                      /\ SignExtend(SubSeq(w, 6, 32))
                            = targetAddress - (branchAddress + 1)
                      /\ SignExtend(SubSeq(w, 6, 32)) + branchAddress + 1
                            = targetAddress

\* A forward reference and a backward reference have both been encoded.
C2_Witness ==
    /\ pc = "done"
    /\ \E i, j \in Pass2Seen :
          /\ IsResolvedBranch(i) /\ IsResolvedBranch(j)
          /\ FirstDef(processed_lines[i].operands[1]) > i
          /\ label_map[processed_lines[i].operands[1]] > InstrBefore(i)
          /\ label_map[processed_lines[j].operands[1]] < InstrBefore(j)
          /\ \E w \in WordsOf(j) : w[6] = "1"

(***************************************************************************)
(* C3.  A line that fails to encode in Pass 2 - an unknown mnemonic, a     *)
(* branch to an undefined label, a malformed memory operand, an            *)
(* unimplemented instruction - emits no word and still takes one address   *)
(* slot: at every entry the Pass 2 address counter is the number of        *)
(* instruction-bearing lines before it, the address Pass 1 used.           *)
(***************************************************************************)
UNIMPLEMENTED_MNEMONICS ==
    {<<"d","i","v">>, <<"m","o","d">>, <<"l","s","l">>, <<"l","s","r">>,
     <<"a","s","r">>}

FailsToEncode(i) ==
    LET e == processed_lines[i]
    IN  /\ IsInstr(i)
        /\ \/ e.mnemonic \notin DOMAIN OPCODES
           \/ /\ e.mnemonic \in JUMP_MNEMONICS
              /\ Len(e.operands) >= 1
              /\ e.operands[1] \notin DOMAIN label_map
           \/ /\ e.mnemonic \in LDST_MNEMONICS
              /\ Len(e.operands) >= 2
              /\ ~re_match_mem(e.operands[2]).matched
           \/ e.mnemonic \in UNIMPLEMENTED_MNEMONICS

C3_FailedLineKeepsAddresses ==
    /\ pc \in {"pass2", "done"} => current_address = InstrBefore(idx)
    /\ \A i \in Pass2Seen :
          FailsToEncode(i) => WordsOf(i) = {} /\ DiagsOf(i) # {}

\* A failed line, then a branch that was encoded after it.
C3_Witness ==
    /\ pc = "done"
    /\ \E i, j \in Pass2Seen :
          /\ i < j
          /\ FailsToEncode(i)
          /\ IsResolvedBranch(j)
          /\ WordsOf(j) # {}

(***************************************************************************)
(* C4.  Every word in the output is a string of exactly 32 binary digits.  *)
(***************************************************************************)
C4_WordsAre32BinaryDigits ==
    \A k \in DOMAIN machine_code :
        machine_code[k].word # None =>
            Len(machine_code[k].word) = 32 /\ IsBinary(machine_code[k].word)

(***************************************************************************)
(* C5.  As claimed: when the bit string computed for an instruction is not *)
(* exactly 32 wide, a diagnostic is reported and no word, in particular no *)
(* placeholder, is appended for that line.                                 *)
(***************************************************************************)
WidthMismatchAtLastEntry ==
    /\ pc \in {"pass2", "done"}
    /\ idx > 1
    /\ Truthy(assembled_instruction)
    /\ Len(assembled_instruction) # 32

HasDuplicate(l) == Cardinality(Defs(l)) > 1

C6_FirstBindingWins ==
    /\ pc # "pass1" =>
          \A l \in DOMAIN label_map :
              HasDuplicate(l) => label_map[l] = InstrBefore(FirstDef(l))
    /\ pc = "done" =>
          \A l \in DOMAIN label_map :
              HasDuplicate(l) =>
                  \E k \in DOMAIN diagnostics :
                      diagnostics[k].kind = "DuplicateLabel"

(***************************************************************************)
(* C7.  A branch or call to a label with no instruction-bearing line at or *)
(* after its definition is reported and yields no word.                    *)
(***************************************************************************)
IsTrailingLabel(l) ==
    /\ Defs(l) # {}
    /\ \A d \in Defs(l) : ~HasInstrAtOrAfter(d)

C7_TrailingLabelReported ==
    \A i \in Pass2Seen :
        LET e == processed_lines[i]
        IN  (/\ e.mnemonic \in JUMP_MNEMONICS
             /\ Len(e.operands) >= 1
             /\ IsTrailingLabel(e.operands[1]))
            => WordsOf(i) = {} /\ DiagsOf(i) # {}

(***************************************************************************)
(* C8.  assemble never aborts: whatever the operands, every entry is       *)
(* processed, and the run ends by returning the output.                    *)
(***************************************************************************)
C8_NeverAborts ==
    /\ pc # "raised"
    /\ pc = "done" => idx = NLines + 1

(***************************************************************************)
(* C9.  A word produced for an instruction with an immediate operand       *)
(* carries that operand's value in its low 16 bits in two's complement:    *)
(* the value is in -2^15 .. 2^15 - 1 and sign-extending the field gives it *)
(* back; an immediate outside that range yields a diagnostic and no word.  *)
(***************************************************************************)
HasImmediate(e) ==
    \/ /\ e.mnemonic \in CMP_MNEMONICS \cup MOV_MNEMONICS
       /\ Len(e.operands) >= 2
       /\ IsNumeric(e.operands[2])
    \/ /\ e.mnemonic \in ARITH_MNEMONICS
       /\ Len(e.operands) >= 3
       /\ IsNumeric(e.operands[3])
    \/ /\ e.mnemonic \in LDST_MNEMONICS
       /\ Len(e.operands) >= 2
       /\ re_match_mem(e.operands[2]).matched
       /\ IntOk(re_match_mem(e.operands[2]).group1)

ImmediateOf(e) ==
    IF e.mnemonic \in LDST_MNEMONICS THEN int(re_match_mem(e.operands[2]).group1)
    ELSE IF e.mnemonic \in ARITH_MNEMONICS THEN int(e.operands[3])
    ELSE int(e.operands[2])

InImm16Range(v) == 0 - 2 ^ 15 <= v /\ v < 2 ^ 15

C9_ImmediateRoundTrip ==
    \A i \in Pass2Seen :
        (IsInstr(i) /\ HasImmediate(processed_lines[i])) =>
            LET v == ImmediateOf(processed_lines[i])
            IN  /\ \A w \in WordsOf(i) :
                      /\ InImm16Range(v)
                      /\ Len(w) = 32
                      /\ IsBinary(w)
                      /\ SignExtend(SubSeq(w, 17, 32)) = v
                /\ ~InImm16Range(v) => WordsOf(i) = {} /\ DiagsOf(i) # {}

(***************************************************************************)
(* C10.  A u/h suffix changes only the 2-bit modifier field: the suffixed  *)
(* mnemonic produces a word exactly when its base mnemonic does on the     *)
(* same operands; in immediate form the two words differ only in bits      *)
(* 17..16, 00 for the base, 01 for u and 10 for h; in register form they   *)
(* are identical and end in 14 zeros.                                      *)
(***************************************************************************)
BaseOf(e) ==
    [line_num |-> e.line_num, label |-> e.label,
     mnemonic |-> SubSeq(e.mnemonic, 1, Len(e.mnemonic) - 1),
     operands |-> e.operands]

C10_SuffixOnlyChangesModifier ==
    pc = "done" =>
        \A i \in Pass2Seen :
            processed_lines[i].mnemonic \in MODIFIER_OPCODES =>
                LET e == processed_lines[i]
                    base == EncodeInstruction(BaseOf(e), label_map, InstrBefore(i))
                    bw == WidthCheck(base.word).word
                    modifier == IF e.mnemonic[Len(e.mnemonic)] = "u"
                                THEN <<"0","1">> ELSE <<"1","0">>
                IN  /\ (WordsOf(i) # {}) <=> (base.outcome = "assembled")
                    /\ \A w \in WordsOf(i) :
                          IF w[6] = "1"
                          THEN /\ SubSeq(w, 1, 14) = SubSeq(bw, 1, 14)
                               /\ SubSeq(w, 17, 32) = SubSeq(bw, 17, 32)
                               /\ SubSeq(bw, 15, 16) = <<"0","0">>
                               /\ SubSeq(w, 15, 16) = modifier
                          ELSE /\ w = bw
                               /\ SubSeq(w, 19, 32) = Zeros(14)
====
